---- MODULE Spec2Model ----
(***************************************************************************)
(* MarketPulse (src/marketpulse.py): the World Bank data layer             *)
(* (wb_fetch_series, wb_fetch_multi, both wrapped by st.cache_data) and    *)
(* the script body that filters, normalizes and pivots the loaded data.    *)
(***************************************************************************)
EXTENDS Integers, Sequences, FiniteSets, TLC

(***************************************************************************)
(* Bounds of the model.                                                    *)
(***************************************************************************)
\* requests one wb_fetch_series call may issue before the server must end it
MaxRequests == 3
\* largest page / pages number a response's metadata carries
MaxPageNo == 2
\* rows accumulated by one wb_fetch_series call
MaxRows == 2
\* script runs started, all sessions together
MaxRuns == 2
\* rows of a raw row list handed to the row parser
MaxParseLen == 3
\* rows of a loaded dataset handed to the script body
MaxDataLen == 3

(***************************************************************************)
(* Strings are sequences of one-character strings.                         *)
(***************************************************************************)
Digits == {"0", "1", "2"}

DigitVal(c) == CASE c = "0" -> 0 [] c = "1" -> 1 [] c = "2" -> 2 [] OTHER -> 0

\* str.isdigit(): non-empty and every character a digit
IsDigit(s) == Len(s) > 0 /\ \A i \in 1..Len(s) : s[i] \in Digits

\* int(s) of a digit string
RECURSIVE IntOf(_)
IntOf(s) ==
  IF s = <<>> THEN 0
  ELSE IntOf(SubSeq(s, 1, Len(s) - 1)) * 10 + DigitVal(s[Len(s)])

(***************************************************************************)
(* Rows of the API: r["date"] is null or a string, r["value"] is null, a   *)
(* number or a string.                                                     *)
(***************************************************************************)
NullDate == [null |-> TRUE, s |-> <<>>]
StrDate(s) == [null |-> FALSE, s |-> s]

NullValue == [kind |-> "null", n |-> 0, s |-> <<>>]
NumValue(n) == [kind |-> "num", n |-> n, s |-> <<>>]
StrValue(s) == [kind |-> "str", n |-> 0, s |-> s]

ApiDates ==
  { NullDate, StrDate(<<>>), StrDate(<<"2">>), StrDate(<<"1", "0">>),
    StrDate(<<"x">>), StrDate(<<"-", "1">>) }

ApiValues == { NullValue, NumValue(5), StrValue(<<"n", "a">>) }

ApiRows == [date : ApiDates, value : ApiValues]

\* the rows the modelled server puts on a page of a series
PageRows ==
  { [date |-> StrDate(<<"2">>), value |-> NumValue(5)],
    [date |-> StrDate(<<"x">>), value |-> NumValue(0)] }

\* line 100: int(date) if date and str(date).isdigit() else None
ParseDate(d) ==
  IF ~d.null /\ d.s # <<>> /\ IsDigit(d.s)
  THEN [ok |-> TRUE, year |-> IntOf(d.s)]
  ELSE [ok |-> FALSE, year |-> 0]

\* line 107: pd.to_numeric(value, errors="coerce"); NaN is the absent value
ToNumeric(v) ==
  CASE v.kind = "num" -> [present |-> TRUE, v |-> v.n]
    [] v.kind = "str" /\ IsDigit(v.s) -> [present |-> TRUE, v |-> IntOf(v.s)]
    [] OTHER -> [present |-> FALSE, v |-> 0]

\* lines 96-102: one record of the frame, before dropna
Record(key, r) ==
  [key |-> key, hasDate |-> ParseDate(r.date).ok, date |-> ParseDate(r.date).year,
   raw |-> r.value]

\* the mutant of DropNaDate: rows without a year are kept
DropNaDateKeepsAll(recs) == recs

\* line 106: df.dropna(subset=["date"])
DropNaDate(recs) == SelectSeq(recs, LAMBDA x : x.hasDate)

RECURSIVE InsertByDate(_, _)
InsertByDate(sorted, x) ==
  IF sorted = <<>> THEN <<x>>
  ELSE IF sorted[Len(sorted)].date <= x.date THEN Append(sorted, x)
  ELSE Append(InsertByDate(SubSeq(sorted, 1, Len(sorted) - 1), x), sorted[Len(sorted)])

\* line 106: .sort_values("date"), ascending
RECURSIVE SortValuesDate(_)
SortValuesDate(recs) ==
  IF recs = <<>> THEN <<>>
  ELSE InsertByDate(SortValuesDate(SubSeq(recs, 1, Len(recs) - 1)), recs[Len(recs)])

\* lines 91-108: the frame wb_fetch_series returns for the accumulated rows
Frame(key, rows) ==
  LET recs == [i \in 1..Len(rows) |-> Record(key, rows[i])]
      kept == SortValuesDate(DropNaDate(recs))
  IN [i \in 1..Len(kept) |->
        [key |-> kept[i].key, date |-> kept[i].date,
         present |-> ToNumeric(kept[i].raw).present,
         value |-> ToNumeric(kept[i].raw).v]]


(***************************************************************************)
(* Selections of the sidebar and the series they name.                     *)
(***************************************************************************)
Sessions == {"s1", "s2"}

CountryChoices == { <<>>, <<"USA">> }
IndicatorChoices == { <<"GDP">>, <<"GDP", "CPI">> }

Keys == { <<"USA", "GDP">>, <<"USA", "CPI">> }
Selections == [countries : CountryChoices, indicators : IndicatorChoices]
NoSelection == [countries |-> <<>>, indicators |-> <<"GDP">>]
OneSeries == [countries |-> <<"USA">>, indicators |-> <<"GDP">>]

\* lines 113-114: the (c, ind) of the nested loops, in the order they are visited
Pairs(s) ==
  [n \in 1..(Len(s.countries) * Len(s.indicators)) |->
     << s.countries[((n - 1) \div Len(s.indicators)) + 1],
        s.indicators[((n - 1) % Len(s.indicators)) + 1] >>]

\* line 121: pd.concat(frames, ignore_index=True)
RECURSIVE Concat(_)
Concat(fs) == IF fs = <<>> THEN <<>> ELSE Head(fs) \o Concat(Tail(fs))

\* the rows of a dataset that belong to one series
RowsOf(df, key) == SelectSeq(df, LAMBDA r : r.key = key)

Range(f) == { f[i] : i \in DOMAIN f }

(***************************************************************************)
(* Responses of the World Bank API to one page request.                    *)
(***************************************************************************)
NotADict == [isdict |-> FALSE, hasPage |-> FALSE, page |-> 0, hasPages |-> FALSE, pages |-> 0]

Metas ==
  {NotADict} \cup
  { [isdict |-> TRUE, hasPage |-> hp, page |-> p, hasPages |-> hps, pages |-> ps] :
      hp \in BOOLEAN, p \in 0..MaxPageNo, hps \in BOOLEAN, ps \in 0..MaxPageNo }

\* a metadata object is kept in one form: an absent field reads 0
MetasNormal == { m \in Metas : (~m.hasPage => m.page = 0) /\ (~m.hasPages => m.pages = 0) }

\* the row lists of a page of at most n rows; an empty page always fits
RowLists(n) == { <<>> } \cup UNION { [1..k -> PageRows] : k \in 1..n }

Failure(kind) == [transport |-> kind, shape |-> "short", meta |-> NotADict, rows |-> <<>>]
Payload(shape, meta, rows) == [transport |-> "ok", shape |-> shape, meta |-> meta, rows |-> rows]

\* what a server may answer to the request of page p when `room` more rows fit
\* the model's bound: anything at all
AnyResponses(room, p) ==
  { Failure("http_error"), Failure("network_error"),
    Payload("short", NotADict, <<>>), Payload("long", NotADict, <<>>) } \cup
  { Payload("envelope", m, rs) : m \in MetasNormal, rs \in RowLists(room) }

Echo(p, ps) == [isdict |-> TRUE, hasPage |-> TRUE, page |-> p, hasPages |-> TRUE, pages |-> ps]
NoPage == [isdict |-> TRUE, hasPage |-> FALSE, page |-> 0, hasPages |-> TRUE, pages |-> 1]

\* the page asked for, of a series of at least that many pages, with rows from `lists`
Pages(p, lists) == { Payload("envelope", Echo(p, ps), rs) : ps \in p..MaxPageNo, rs \in lists }

\* ... or, of a server that keeps to the API's contract (spec section 6), an
\* error status or the page asked for, with rows whose year is a year
PlainResponses(room, p) ==
  { Failure("http_error") } \cup
  Pages(p, { l \in RowLists(room) : \A i \in 1..Len(l) : ParseDate(l[i].date).ok })

\* ... or, of a server that fails in every way the loop can tell apart, but
\* numbers its pages as asked
FaultyResponses(room, p) ==
  { Failure("http_error"), Failure("network_error"),
    Payload("short", NotADict, <<>>), Payload("long", NotADict, <<>>) } \cup
  Pages(p, RowLists(room)) \cup
  { Payload("envelope", m, rs) : m \in {NotADict, NoPage}, rs \in RowLists(room) \ {<<>>} }

\* ... or, of a server whose one page holds rows of any kind
LastPageResponses(room, p) ==
  { Payload("envelope", Echo(p, p), rs) :
      rs \in UNION { [1..k -> ApiRows] : k \in 0..MaxParseLen } }

Responses(mode, room, p) ==
  CASE mode = "plain" -> PlainResponses(room, p)
    [] mode = "faulty" -> FaultyResponses(room, p)
    [] mode = "rows" -> LastPageResponses(room, p)
    [] OTHER -> AnyResponses(room, p)

\* the mutant of MetaStop: the last page is recognised one page late
MetaStopStrict(meta) ==
  CASE ~meta.isdict -> "AttributeError"
    [] ~meta.hasPage -> "TypeError"
    [] OTHER -> IF meta.page > (IF meta.hasPages THEN meta.pages ELSE 1)
                THEN "break" ELSE "continue"

\* line 86: meta.get("page") >= meta.get("pages", 1)
MetaStop(meta) ==
  CASE ~meta.isdict -> "AttributeError"
    [] ~meta.hasPage -> "TypeError"
    [] OTHER -> IF meta.page >= (IF meta.hasPages THEN meta.pages ELSE 1)
                THEN "break" ELSE "continue"

\* lines 75-88: one iteration of the while loop on the response `resp`
LoopBody(rows, resp) ==
  CASE resp.transport = "network_error" ->
         [next |-> "raise", exc |-> "ConnectionError", rows |-> rows]
    [] resp.transport = "http_error" ->
         [next |-> "raise", exc |-> "RuntimeError", rows |-> rows]
    [] resp.shape = "short" ->
         [next |-> "break", exc |-> "", rows |-> rows]
    [] resp.shape = "long" ->
         [next |-> "raise", exc |-> "ValueError", rows |-> rows]
    [] resp.rows = <<>> ->
         [next |-> "break", exc |-> "", rows |-> rows]
    [] OTHER ->
         LET stop == MetaStop(resp.meta)
         IN CASE stop = "break" -> [next |-> "break", exc |-> "", rows |-> rows \o resp.rows]
              [] stop = "continue" -> [next |-> "continue", exc |-> "", rows |-> rows \o resp.rows]
              [] OTHER -> [next |-> "raise", exc |-> stop, rows |-> rows \o resp.rows]

\* line 117: except Exception
Caught(exc) == exc \in {"RuntimeError", "ConnectionError", "ValueError", "AttributeError", "TypeError"}


(***************************************************************************)
(* State.  Every browser session runs the script in a thread of its own;   *)
(* the two st.cache_data stores and their per-key locks are shared.        *)
(***************************************************************************)
VARIABLES
  active,        \* the sessions that are open
  server,        \* the kind of server the sessions talk to
  pc,            \* where each session's script run stands
  runs,          \* script runs each session has started
  sel,           \* (iso3, indicator_codes) of the session's current run
  idx,           \* position of the loops of wb_fetch_multi in Pairs(sel)
  frames,        \* frames of wb_fetch_multi
  warnings,      \* st.warning calls of the running wb_fetch_multi, by series
  attempted,     \* series wb_fetch_multi has called wb_fetch_series for
  failed,        \* ... and whose call raised
  page,          \* page of wb_fetch_series
  all_rows,      \* all_rows of wb_fetch_series
  data,          \* data of the script (line 162)
  shown,         \* warnings the session's page shows
  seriesCache,   \* st.cache_data store of wb_fetch_series
  multiCache,    \* st.cache_data store of wb_fetch_multi
  seriesLock,    \* holder of each series key's compute lock
  multiLock,     \* holder of each selection's compute lock
  nfetch,        \* executions of wb_fetch_series's body started, per key
  nsucc,         \* ... that returned
  nfail,         \* ... that raised
  got,           \* frames the calls of wb_fetch_series(key) have returned
  fetchLog,      \* what the running (or last) wb_fetch_series body has seen
  multiOutcome,  \* how the session's last wb_fetch_multi call ended
  waitedFor,     \* outcome of the fetch a session was blocked behind
  stage,         \* where the script body after loading stands
  min_year, max_year, norm,
  halted,        \* st.stop() was called
  value_norm,    \* the value_norm column of data (line 197), when norm
  charted,       \* the Chart section ran
  wide_all,      \* the wide table of the Correlation section
  correlated     \* the Correlation section ran

loadVars ==
  << active, server, pc, runs, sel, idx, frames, warnings, attempted, failed, page, all_rows, shown,
     seriesCache, multiCache, seriesLock, multiLock, nfetch, nsucc, nfail, got,
     fetchLog, multiOutcome, waitedFor >>

bodyVars == << stage, min_year, max_year, norm, halted, value_norm, charted, wide_all, correlated >>

vars == << loadVars, data, bodyVars >>

NoLog ==
  [outcome |-> "none", requests |-> 0, hypMeta |-> TRUE, hypEcho |-> TRUE,
   lastPages |-> 0, lastStop |-> FALSE, malformed |-> FALSE, rows |-> <<>>]

NoEntry == [has |-> FALSE, frame |-> <<>>, warnings |-> <<>>]

\* the series the loops of session t stand at
CurKey(t) == Pairs(sel[t])[idx[t]]

\* the stores are empty and no call is under way
InitStores(open, mode) ==
  /\ active = open
  /\ server = mode
  /\ frames = [t \in Sessions |-> <<>>]
  /\ warnings = [t \in Sessions |-> <<>>]
  /\ attempted = [t \in Sessions |-> <<>>]
  /\ failed = [t \in Sessions |-> <<>>]
  /\ all_rows = [t \in Sessions |-> <<>>]
  /\ shown = [t \in Sessions |-> <<>>]
  /\ seriesCache = [k \in Keys |-> NoEntry]
  /\ multiCache = [s \in Selections |-> NoEntry]
  /\ nsucc = [k \in Keys |-> 0]
  /\ nfail = [k \in Keys |-> 0]
  /\ got = [k \in Keys |-> {}]
  /\ waitedFor = [t \in Sessions |-> "none"]

\* session s1 stands at `at` in a run for selection s, the others are idle; the
\* locks in `held` are s1's
InitSessions(at, s, held, outcome) ==
  LET S1(v, w) == [t \in Sessions |-> IF t = "s1" THEN v ELSE w]
  IN /\ pc = S1(at, "idle")
     /\ runs = S1(IF at = "idle" THEN 0 ELSE 1, 0)
     /\ sel = S1(s, NoSelection)
     /\ idx = S1(IF held THEN 1 ELSE 0, 0)
     /\ page = S1(IF held THEN 1 ELSE 0, 0)
     /\ seriesLock = [k \in Keys |-> IF held /\ k = Pairs(s)[1] THEN "s1" ELSE "free"]
     /\ multiLock = [x \in Selections |-> IF held /\ x = s THEN "s1" ELSE "free"]
     /\ nfetch = [k \in Keys |-> IF held /\ k = Pairs(s)[1] THEN 1 ELSE 0]
     /\ fetchLog = S1(IF held THEN [NoLog EXCEPT !.outcome = "running"] ELSE NoLog, NoLog)
     /\ multiOutcome = S1(outcome, "none")

InitLoad(open, mode) ==
  /\ InitStores(open, mode)
  /\ InitSessions("idle", NoSelection, FALSE, "none")

NoTable == [rows |-> {}, cols |-> {}, cell |-> <<>>]

InitBodyIdle ==
  /\ stage = "off"
  /\ min_year = 0
  /\ max_year = 0
  /\ norm = FALSE
  /\ halted = FALSE
  /\ value_norm = <<>>
  /\ charted = FALSE
  /\ wide_all = NoTable
  /\ correlated = FALSE

(***************************************************************************)
(* st.cache_data (lines 66, 110).  A call reads the store; on a miss it    *)
(* takes the key's compute lock, reads the store again, and only then runs *)
(* the body.  The body's return value is stored; an exception leaves the   *)
(* store as it was and goes on to the caller.                              *)
(***************************************************************************)

\* the mutant of CacheRead: the store is never hit
CacheReadMiss(store, key) == NoEntry

\* cache.read_result(value_key)
CacheRead(store, key) == store[key]

\* the mutant of LockFree: the body is computed without the lock
LockFreeAlways(locks, key) == TRUE

\* cache.compute_value_lock(value_key) can be taken
LockFree(locks, key) == locks[key] = "free"

\* cache.write_result(value_key, computed_value, messages)
StoreOutcome(store, key, entry) == [store EXCEPT ![key] = entry]


(***************************************************************************)
(* The data layer, one action per step between two suspension points.      *)
(***************************************************************************)

\* what the page of session t shows once wb_fetch_multi has produced `entry`
Loaded(t, entry, how) ==
  /\ data' = [data EXCEPT ![t] = entry.frame]
  /\ shown' = [shown EXCEPT ![t] = entry.warnings]
  /\ multiOutcome' = [multiOutcome EXCEPT ![t] = how]

TotalRuns == runs["s1"] + runs["s2"]

\* lines 160-162: a script run starts and calls wb_fetch_multi(iso3, indicator_codes)
ScriptRun(t) ==
  /\ t \in active
  /\ pc[t] \in {"idle", "loaded", "crashed"}
  /\ TotalRuns < MaxRuns
  /\ \E s \in Selections :
       LET e == CacheRead(multiCache, s)
       IN /\ sel' = [sel EXCEPT ![t] = s]
          /\ IF e.has
             THEN /\ Loaded(t, e, "cached")
                  /\ pc' = [pc EXCEPT ![t] = "loaded"]
             ELSE /\ Loaded(t, NoEntry, "running")
                  /\ pc' = [pc EXCEPT ![t] = "multi_lock"]
  /\ runs' = [runs EXCEPT ![t] = @ + 1]
  /\ idx' = [idx EXCEPT ![t] = 0]
  /\ frames' = [frames EXCEPT ![t] = <<>>]
  /\ warnings' = [warnings EXCEPT ![t] = <<>>]
  /\ attempted' = [attempted EXCEPT ![t] = <<>>]
  /\ failed' = [failed EXCEPT ![t] = <<>>]
  /\ fetchLog' = [fetchLog EXCEPT ![t] = NoLog]
  /\ UNCHANGED << active, server, page, all_rows, seriesCache, multiCache, seriesLock, multiLock,
                  nfetch, nsucc, nfail, got, waitedFor, bodyVars >>

\* line 110: the miss of wb_fetch_multi takes the selection's lock and reads again;
\* lines 112-113: on a second miss the body starts
MultiAcquire(t) ==
  /\ pc[t] = "multi_lock"
  /\ LockFree(multiLock, sel[t])
  /\ LET e == CacheRead(multiCache, sel[t])
     IN IF e.has
        THEN /\ Loaded(t, e, "cached")
             /\ pc' = [pc EXCEPT ![t] = "loaded"]
             /\ UNCHANGED << multiLock, idx >>
        ELSE /\ multiLock' = [multiLock EXCEPT ![sel[t]] = t]
             /\ idx' = [idx EXCEPT ![t] = 1]
             /\ pc' = [pc EXCEPT ![t] = "loop"]
             /\ UNCHANGED << data, shown, multiOutcome >>
  /\ UNCHANGED << active, server, runs, sel, frames, warnings, attempted, failed, page, all_rows,
                  seriesCache, multiCache, seriesLock, nfetch, nsucc, nfail, got,
                  fetchLog, waitedFor, bodyVars >>

\* line 116: wb_fetch_series(c, ind) returned f; frames.append(f) and the loops go on
ReturnFrame(t, f) ==
  /\ frames' = [frames EXCEPT ![t] = Append(@, f)]
  /\ attempted' = [attempted EXCEPT ![t] = Append(@, CurKey(t))]
  /\ got' = [got EXCEPT ![CurKey(t)] = @ \cup {f}]
  /\ idx' = [idx EXCEPT ![t] = @ + 1]
  /\ pc' = [pc EXCEPT ![t] = "loop"]
  /\ waitedFor' = [waitedFor EXCEPT ![t] = "none"]

\* line 116 on a series that is not at hand: the first read of the store
SeriesLookup(t) ==
  /\ pc[t] = "loop"
  /\ idx[t] <= Len(Pairs(sel[t]))
  /\ LET e == CacheRead(seriesCache, CurKey(t))
     IN IF e.has
        THEN ReturnFrame(t, e.frame)
        ELSE /\ pc' = [pc EXCEPT ![t] = "series_lock"]
             /\ UNCHANGED << frames, attempted, got, idx, waitedFor >>
  /\ fetchLog' = [fetchLog EXCEPT ![t] = NoLog]
  /\ UNCHANGED << active, server, runs, sel, warnings, failed, page, all_rows, data, shown, seriesCache,
                  multiCache, seriesLock, multiLock, nfetch, nsucc, nfail,
                  multiOutcome, bodyVars >>

\* line 66: the miss of wb_fetch_series takes the key's lock and reads again;
\* lines 71-73: on a second miss the body starts
SeriesAcquire(t) ==
  /\ pc[t] = "series_lock"
  /\ LockFree(seriesLock, CurKey(t))
  /\ LET e == CacheRead(seriesCache, CurKey(t))
     IN IF e.has
        THEN /\ ReturnFrame(t, e.frame)
             /\ UNCHANGED << seriesLock, page, all_rows, nfetch, fetchLog >>
        ELSE /\ seriesLock' = [seriesLock EXCEPT ![CurKey(t)] = t]
             /\ page' = [page EXCEPT ![t] = 1]
             /\ all_rows' = [all_rows EXCEPT ![t] = <<>>]
             /\ nfetch' = [nfetch EXCEPT ![CurKey(t)] = @ + 1]
             /\ fetchLog' = [fetchLog EXCEPT ![t] = [NoLog EXCEPT !.outcome = "running"]]
             /\ pc' = [pc EXCEPT ![t] = "request"]
             /\ UNCHANGED << frames, attempted, got, idx, waitedFor >>
  /\ UNCHANGED << active, server, runs, sel, warnings, failed, data, shown, seriesCache, multiCache,
                  multiLock, nsucc, nfail, multiOutcome, bodyVars >>

\* the metadata of a response is an object with page and pages, pages >= page
MetaOk(resp) ==
  /\ resp.transport = "ok" /\ resp.shape = "envelope"
  /\ resp.meta.isdict /\ resp.meta.hasPage /\ resp.meta.hasPages
  /\ resp.meta.pages >= resp.meta.page

\* what session t's fetch has seen once `resp` is handled with outcome `next`
LogAfter(t, resp, next, rows) ==
  [outcome |-> CASE next = "continue" -> "running"
                 [] next = "break" -> "returned"
                 [] OTHER -> "raised",
   requests |-> fetchLog[t].requests + 1,
   hypMeta |-> fetchLog[t].hypMeta /\ MetaOk(resp),
   hypEcho |-> fetchLog[t].hypEcho /\ MetaOk(resp) /\ resp.meta.page = page[t],
   lastPages |-> resp.meta.pages,
   lastStop |-> MetaOk(resp) /\ (resp.rows = <<>> \/ resp.meta.page = resp.meta.pages),
   malformed |-> /\ resp.transport = "ok" /\ resp.shape = "envelope" /\ resp.rows # <<>>
                 /\ ~(resp.meta.isdict /\ resp.meta.hasPage /\ resp.meta.hasPages),
   rows |-> IF next = "continue" THEN <<>> ELSE rows]

\* the sessions blocked on the lock of t's series learn how t's fetch ended
Waiters(t, how) ==
  [u \in Sessions |->
     IF u # t /\ pc[u] = "series_lock" /\ CurKey(u) = CurKey(t) THEN how ELSE waitedFor[u]]

\* the mutant of OnError: the rows of the pages read so far are kept
OnErrorKeepsRows(key, rows) == << Frame(key, rows) >>

\* lines 117-118: what the handler appends to frames for a failed series
OnError(key, rows) == <<>>

\* the mutant of AfterError: the first failure ends the loops
AfterErrorAborts(s, i) == Len(Pairs(s)) + 1

\* lines 113-118: the position of the loops after the handler
AfterError(s, i) == i + 1

\* lines 74-89, then 91-108 and 116-118: the response to the page request of
\* session t arrives; the loop goes on, or wb_fetch_series returns or raises
\* into wb_fetch_multi
FetchPage(t) ==
  /\ pc[t] = "request"
  /\ \E resp \in Responses(server, MaxRows - Len(all_rows[t]), page[t]) :
       LET b == LoopBody(all_rows[t], resp)
           key == CurKey(t)
           f == Frame(key, b.rows)
       IN /\ b.next = "continue" => page[t] < MaxRequests
          /\ fetchLog' = [fetchLog EXCEPT ![t] = LogAfter(t, resp, b.next, b.rows)]
          /\ CASE b.next = "continue" ->
                    /\ all_rows' = [all_rows EXCEPT ![t] = b.rows]
                    /\ page' = [page EXCEPT ![t] = @ + 1]
                    /\ UNCHANGED << pc, idx, frames, warnings, attempted, failed, got, seriesCache,
                                    seriesLock, multiLock, nsucc, nfail, waitedFor,
                                    data, shown, multiOutcome >>
               [] b.next = "break" ->
                    /\ seriesCache' = StoreOutcome(seriesCache, key,
                                        [has |-> TRUE, frame |-> f, warnings |-> <<>>])
                    /\ seriesLock' = [seriesLock EXCEPT ![key] = "free"]
                    /\ nsucc' = [nsucc EXCEPT ![key] = @ + 1]
                    /\ all_rows' = [all_rows EXCEPT ![t] = <<>>]
                    /\ frames' = [frames EXCEPT ![t] = Append(@, f)]
                    /\ attempted' = [attempted EXCEPT ![t] = Append(@, key)]
                    /\ got' = [got EXCEPT ![key] = @ \cup {f}]
                    /\ idx' = [idx EXCEPT ![t] = @ + 1]
                    /\ pc' = [pc EXCEPT ![t] = "loop"]
                    /\ waitedFor' = [Waiters(t, "returned") EXCEPT ![t] = "none"]
                    /\ UNCHANGED << page, warnings, failed, multiLock, nfail, data, shown,
                                    multiOutcome >>
               [] OTHER ->
                    /\ seriesLock' = [seriesLock EXCEPT ![key] = "free"]
                    /\ nfail' = [nfail EXCEPT ![key] = @ + 1]
                    /\ all_rows' = [all_rows EXCEPT ![t] = <<>>]
                    /\ attempted' = [attempted EXCEPT ![t] = Append(@, key)]
                    /\ failed' = [failed EXCEPT ![t] = Append(@, key)]
                    /\ waitedFor' = [Waiters(t, "raised") EXCEPT ![t] = "none"]
                    /\ IF Caught(b.exc)
                       THEN /\ warnings' = [warnings EXCEPT ![t] = Append(@, key)]
                            /\ frames' = [frames EXCEPT ![t] = @ \o OnError(key, b.rows)]
                            /\ idx' = [idx EXCEPT ![t] = AfterError(sel[t], @)]
                            /\ pc' = [pc EXCEPT ![t] = "loop"]
                            /\ UNCHANGED << multiLock, multiOutcome >>
                       ELSE /\ multiLock' = [multiLock EXCEPT ![sel[t]] = "free"]
                            /\ multiOutcome' = [multiOutcome EXCEPT ![t] = "raised"]
                            /\ pc' = [pc EXCEPT ![t] = "crashed"]
                            /\ UNCHANGED << warnings, frames, idx >>
                    /\ UNCHANGED << page, got, seriesCache, nsucc, data, shown >>
  /\ UNCHANGED << active, server, runs, sel, multiCache, nfetch, bodyVars >>

\* lines 119-122: the frame wb_fetch_multi returns
Merge(fs) == IF fs = <<>> THEN <<>> ELSE Concat(fs)

\* lines 119-122, then 110 and 162: the loops are over; wb_fetch_multi returns,
\* its value and its st.warning calls are stored, and the script has its data
MultiReturn(t) ==
  /\ pc[t] = "loop"
  /\ idx[t] > Len(Pairs(sel[t]))
  /\ LET e == [has |-> TRUE, frame |-> Merge(frames[t]), warnings |-> warnings[t]]
     IN /\ multiCache' = StoreOutcome(multiCache, sel[t], e)
        /\ Loaded(t, e, "returned")
  /\ multiLock' = [multiLock EXCEPT ![sel[t]] = "free"]
  /\ frames' = [frames EXCEPT ![t] = <<>>]
  /\ pc' = [pc EXCEPT ![t] = "loaded"]
  /\ fetchLog' = [fetchLog EXCEPT ![t] = NoLog]
  /\ UNCHANGED << active, server, runs, sel, idx, warnings, attempted, failed, page, all_rows,
                  seriesCache, seriesLock, nfetch, nsucc, nfail, got,
                  waitedFor, bodyVars >>

NextLoad ==
  \E t \in Sessions :
    \/ ScriptRun(t)
    \/ MultiAcquire(t)
    \/ SeriesLookup(t)
    \/ SeriesAcquire(t)
    \/ FetchPage(t)
    \/ MultiReturn(t)

InitData == data = [t \in Sessions |-> <<>>]

\* one session
Init == InitLoad({"s1"}, "faulty") /\ InitData /\ InitBodyIdle
Spec == Init /\ [][NextLoad]_vars

\* one session whose fetch of a series is about to request its first page,
\* from a server that may answer anything
InitFetch ==
  /\ InitStores({"s1"}, "any")
  /\ InitSessions("request", OneSeries, TRUE, "running")
  /\ InitData /\ InitBodyIdle
SpecFetch == InitFetch /\ [][\E t \in Sessions : FetchPage(t)]_vars

\* one session whose fetch of a series is about to request its first page,
\* from a server that answers with one page of rows of any kind
InitParse ==
  /\ InitStores({"s1"}, "rows")
  /\ InitSessions("request", OneSeries, TRUE, "running")
  /\ InitData /\ InitBodyIdle
SpecParse == InitParse /\ [][\E t \in Sessions : FetchPage(t)]_vars

\* two sessions at a time
InitShared == InitLoad(Sessions, "plain") /\ InitData /\ InitBodyIdle
SpecShared == InitShared /\ [][NextLoad]_vars


(***************************************************************************)
(* The data layer: properties.                                             *)
(***************************************************************************)
InFlight(k) == { t \in Sessions : pc[t] = "request" /\ CurKey(t) = k }

InMulti(t) == pc[t] \in {"loop", "series_lock", "request"}

Injective(q) == \A i, j \in 1..Len(q) : q[i] = q[j] => i = j

\* C1, as stated: whenever every response of a fetch carried metadata with
\* pages >= page and the fetch has ended, it issued at most `pages` requests.
C1_Original ==
  \A t \in Sessions :
    (fetchLog[t].outcome = "returned" /\ fetchLog[t].hypMeta)
      => fetchLog[t].requests <= fetchLog[t].lastPages

\* C1, amended: when every response's metadata also reports as `page` the
\* number of the page that was requested, the fetch has issued at most `pages`
\* requests, it ends exactly at the response whose page equals pages or whose
\* row list is empty, and it does not end in an error.
C1_PaginationTerminates ==
  \A t \in Sessions :
    (fetchLog[t].hypEcho /\ fetchLog[t].requests > 0) =>
      /\ fetchLog[t].requests <= fetchLog[t].lastPages
      /\ fetchLog[t].outcome # "raised"
      /\ (fetchLog[t].outcome = "returned") <=> fetchLog[t].lastStop
      /\ fetchLog[t].outcome = "running" => page[t] = fetchLog[t].requests + 1

C1_Witness ==
  \E t \in Sessions :
    /\ fetchLog[t].hypEcho /\ fetchLog[t].outcome = "returned"
    /\ fetchLog[t].requests = 2 /\ fetchLog[t].lastPages = 2

\* C2: once a page with rows and with missing or malformed metadata has been
\* handled, the fetch has ended by returning (no further request, no error).
C2_MalformedMetaTerminates ==
  \A t \in Sessions : fetchLog[t].malformed => fetchLog[t].outcome = "returned"

\* C3, as stated: the body of wb_fetch_series runs at most once per key.
C3_Original == \A k \in Keys : nfetch[k] <= 1

\* C3, amended: per key at most one fetch ever succeeds; its frame is stored
\* and is what every call for the key returns; after it no fetch of the key is
\* started.  A fetch that raised stored nothing: every fetch of a key beyond
\* the first follows a failed one.
C3_CacheStoresSuccess ==
  \A k \in Keys :
    /\ nsucc[k] <= 1
    /\ nfetch[k] = nsucc[k] + nfail[k] + Cardinality(InFlight(k))
    /\ seriesCache[k].has <=> nsucc[k] = 1
    /\ nsucc[k] = 1 => (InFlight(k) = {} /\ got[k] = {seriesCache[k].frame})
    /\ nsucc[k] = 0 => got[k] = {}

\* a second run is served a series from the store that the first run fetched
C3_Witness ==
  \E t \in Sessions :
    /\ TotalRuns = 2 /\ pc[t] = "loop" /\ idx[t] = 2
    /\ fetchLog[t].outcome = "none" /\ Len(frames[t]) = 1
    /\ nfetch[CurKey(t)] = 0 /\ nfetch[attempted[t][1]] = 1

\* C4, as stated: a caller that was blocked behind another caller's fetch of
\* its key never starts a fetch of its own.
C4_Original == \A t \in Sessions : pc[t] = "request" => waitedFor[t] = "none"

\* C4, amended: at no time are two fetches of one key in flight; a caller
\* blocked behind a fetch that returned finds the frame stored, and only a
\* caller blocked behind a fetch that raised starts its own; a caller at the
\* lock of a key finds it free unless a fetch of that very key is in flight.
C4_SingleFlight ==
  /\ \A k \in Keys :
       /\ Cardinality(InFlight(k)) <= 1
       /\ seriesLock[k] # "free" <=> InFlight(k) = {seriesLock[k]}
  /\ \A t \in Sessions :
       /\ (pc[t] = "request" /\ waitedFor[t] # "none") => waitedFor[t] = "raised"
       /\ waitedFor[t] = "returned" =>
            (pc[t] = "series_lock" /\ seriesCache[CurKey(t)].has)
       /\ (pc[t] = "series_lock" /\ InFlight(CurKey(t)) = {})
            => seriesLock[CurKey(t)] = "free"

\* a caller is blocked behind a fetch of its key while a fetch of another key
\* is in flight
C4_Witness ==
  \E t, u \in Sessions :
    /\ t # u /\ pc[u] = "request" /\ pc[t] = "series_lock"
    /\ waitedFor[t] = "returned" /\ CurKey(u) # CurKey(t)

\* C5: wb_fetch_multi never raises; it calls wb_fetch_series for every pair of
\* the product, in order, whatever failed before; it records one warning per
\* failed call; and when there are pairs and all of them failed, the dataset
\* has no rows and the warnings are not empty.
C5_PartialFailure ==
  \A t \in Sessions :
    /\ multiOutcome[t] # "raised"
    /\ pc[t] # "crashed"
    /\ InMulti(t) =>
         /\ attempted[t] = SubSeq(Pairs(sel[t]), 1, idx[t] - 1)
         /\ Len(frames[t]) + Len(warnings[t]) = Len(attempted[t])
         /\ warnings[t] = failed[t]
    /\ multiOutcome[t] = "returned" =>
         /\ attempted[t] = Pairs(sel[t])
         /\ shown[t] = failed[t]
         /\ Injective(shown[t])
         /\ (Pairs(sel[t]) # <<>> /\ Len(failed[t]) = Len(Pairs(sel[t])))
              => (data[t] = <<>> /\ shown[t] # <<>>)

\* the first of two pairs failed, the second was fetched and its rows returned
C5_Witness ==
  \E t \in Sessions :
    /\ multiOutcome[t] = "returned" /\ Len(Pairs(sel[t])) = 2
    /\ shown[t] = << Pairs(sel[t])[1] >> /\ data[t] # <<>>

\* C6: the rows of the merged dataset (and of frames while it is built) are,
\* per series, the frame of the one successful fetch of that series; a series
\* whose call raised, on whatever page, has no rows in it.
C6_NoPartialRows ==
  \A t \in Sessions :
    LET merged == IF InMulti(t) THEN Concat(frames[t]) ELSE data[t]
        bad == IF InMulti(t) THEN failed[t] ELSE shown[t]
        done == IF InMulti(t) THEN attempted[t] ELSE Pairs(sel[t])
    IN (InMulti(t) \/ multiOutcome[t] \in {"returned", "cached"}) =>
         \A k \in Keys :
           IF k \in Range(done) /\ k \notin Range(bad)
           THEN /\ nsucc[k] = 1
                /\ RowsOf(merged, k) = seriesCache[k].frame
           ELSE RowsOf(merged, k) = <<>>

\* a series failed on its second page, after its first page had returned rows
C6_Witness ==
  \E t \in Sessions :
    /\ pc[t] = "loop" /\ fetchLog[t].outcome = "raised" /\ fetchLog[t].requests = 2
    /\ failed[t] # <<>> /\ Concat(frames[t]) = <<>>


(***************************************************************************)
(* Row parsing: properties of the frame of one series.                     *)
(***************************************************************************)
\* a year is written with digits only
YearString(d) == ~d.null /\ Len(d.s) >= 1 /\ \A i \in 1..Len(d.s) : d.s[i] \in Digits

\* the value of a row is a number
NumberValue(v) == v.kind = "num"

\* how often a frame holds the observation (year, present, value)
CountIn(f, y, pr, v) ==
  Cardinality({ i \in 1..Len(f) : f[i].date = y /\ f[i].present = pr /\ f[i].value = v })

\* how often a row list holds a row with a year string that reads y and a
\* value that is (pr) or is not a number, v when it is
CountRows(rows, y, pr, v) ==
  Cardinality({ i \in 1..Len(rows) :
                  /\ YearString(rows[i].date) /\ IntOf(rows[i].date.s) = y
                  /\ NumberValue(rows[i].value) = pr
                  /\ (pr => rows[i].value.n = v) })

ParsedYears == { IntOf(d.s) : d \in { x \in ApiDates : ~x.null } }
ParsedValues == { v.n : v \in ApiValues }

Years == 1..2
YearRanges == { <<1, 2>>, <<2, 2>>, <<3, 3>> }
BodySelections ==
  { [countries |-> <<"USA", "GBR">>, indicators |-> <<"GDP">>],
    [countries |-> <<"USA">>, indicators |-> <<"GDP", "CPI">>] }

Absent == [present |-> FALSE, value |-> 0]
Present(v) == [present |-> TRUE, value |-> v]

\* the observations a series may hold in one year
Observations(key) ==
  { [key |-> key, date |-> y, present |-> x.present, value |-> x.value] :
      y \in Years, x \in {Absent, Present(5), Present(7)} }

\* the frames wb_fetch_series may have returned for a series: line 106 leaves
\* them in ascending year order
Frames(key) ==
  { f \in UNION { [1..n -> Observations(key)] : n \in 0..MaxDataLen } :
      \A i \in 1..(Len(f) - 1) : f[i].date <= f[i + 1].date }

\* the datasets wb_fetch_multi may have returned for a selection of two series
DataSets(s) ==
  { p[1] \o p[2] :
      p \in { q \in Frames(Pairs(s)[1]) \X Frames(Pairs(s)[2]) :
                Len(q[1]) + Len(q[2]) <= MaxDataLen } }

\* wb_fetch_multi has just returned the dataset d to the script of session s1
InitBody ==
  /\ InitStores({"s1"}, "any")
  /\ \E s \in BodySelections :
       /\ InitSessions("loaded", s, FALSE, "returned")
       /\ \E d \in DataSets(s) : data = [t \in Sessions |-> IF t = "s1" THEN d ELSE <<>>]
  /\ stage = "loaded"
  /\ \E r \in YearRanges : min_year = r[1] /\ max_year = r[2]
  /\ norm \in BOOLEAN
  /\ halted = FALSE
  /\ value_norm = <<>>
  /\ charted = FALSE
  /\ wide_all = NoTable
  /\ correlated = FALSE

\* lines 164-166: if data.empty: st.error(...); st.stop()
CheckEmpty(t) ==
  /\ t \in active /\ pc[t] = "loaded" /\ stage = "loaded"
  /\ IF data[t] = <<>>
     THEN halted' = TRUE /\ stage' = "stopped"
     ELSE halted' = FALSE /\ stage' = "filter"
  /\ UNCHANGED << loadVars, data, min_year, max_year, norm, value_norm, charted,
                  wide_all, correlated >>

\* line 172: (data["date"] >= min_year) & (data["date"] <= max_year)
Mask(r, lo, hi) == r.date >= lo /\ r.date <= hi

\* lines 168-173: the year filter
FilterYears(t) ==
  /\ t \in active /\ stage = "filter"
  /\ data' = [data EXCEPT ![t] = SelectSeq(@, LAMBDA r : Mask(r, min_year, max_year))]
  /\ stage' = "kpis"
  /\ UNCHANGED << loadVars, min_year, max_year, norm, halted, value_norm, charted,
                  wide_all, correlated >>

\* lines 184-187: dfc["value"].dropna().iloc[-1] if not dfc.empty; an IndexError
\* when the primary country's series has rows and none of them has a value
KpiFails(d, s, ind) ==
  LET dfc == SelectSeq(d, LAMBDA r : r.key = << s.countries[1], ind >>)
  IN dfc # <<>> /\ \A i \in 1..Len(dfc) : ~dfc[i].present

\* lines 179-191: the KPI row
Kpis(t) ==
  /\ t \in active /\ stage = "kpis"
  /\ stage' = IF \E ind \in Range(sel[t].indicators) : KpiFails(data[t], sel[t], ind)
              THEN "crashed" ELSE "chart"
  /\ UNCHANGED << loadVars, data, min_year, max_year, norm, halted, value_norm, charted,
                  wide_all, correlated >>

RECURSIVE SumOver(_, _)
SumOver(S, f) ==
  IF S = {} THEN 0
  ELSE LET i == CHOOSE x \in S : TRUE IN f[i] + SumOver(S \ {i}, f)

\* the rows of series k that have a value
Valued(d, k) == { i \in 1..Len(d) : d[i].key = k /\ d[i].present }

\* s.mean(): NaN for a series without values
SeriesMean(d, k) ==
  [nan |-> Valued(d, k) = {}, n |-> Cardinality(Valued(d, k)),
   sum |-> SumOver(Valued(d, k), [i \in 1..Len(d) |-> d[i].value])]

\* s.std(), the sample deviation: NaN for fewer than two values; otherwise sq is
\* n * sum(x^2) - sum(x)^2, which is n * (n - 1) * std^2
SeriesStd(d, k) ==
  LET n == Cardinality(Valued(d, k))
      sm == SumOver(Valued(d, k), [i \in 1..Len(d) |-> d[i].value])
      sm2 == SumOver(Valued(d, k), [i \in 1..Len(d) |-> d[i].value * d[i].value])
  IN [nan |-> n < 2, sq |-> IF n < 2 THEN 0 ELSE n * sm2 - sm * sm]

\* line 198: s.std() if s.std() not in (0, None) else 1.  NaN is neither 0 nor
\* None, so a NaN deviation is the divisor
Divisor(std) ==
  IF ~std.nan /\ std.sq = 0
  THEN [nan |-> FALSE, one |-> TRUE, sq |-> 0]
  ELSE [nan |-> std.nan, one |-> FALSE, sq |-> std.sq]

NaN == [nan |-> TRUE, num |-> 0, den |-> 0, one |-> FALSE, sq |-> 0]

\* line 198: (s - s.mean()) / divisor, for one row.  The quotient is kept as
\* (num / den) over the divisor: 1 when `one`, the deviation of `sq` otherwise
ZScore(r, mean, div) ==
  IF ~r.present \/ mean.nan \/ div.nan THEN NaN
  ELSE [nan |-> FALSE, num |-> mean.n * r.value - mean.sum, den |-> mean.n,
        one |-> div.one, sq |-> div.sq]

\* lines 197-199: the value_norm column, by (countryiso3code, indicator)
Normalized(d) ==
  [i \in 1..Len(d) |-> ZScore(d[i], SeriesMean(d, d[i].key), Divisor(SeriesStd(d, d[i].key)))]

\* lines 195-216: normalization when asked for, then one chart per indicator
Chart(t) ==
  /\ t \in active /\ stage = "chart"
  /\ value_norm' = IF norm THEN Normalized(data[t]) ELSE <<>>
  /\ charted' = TRUE
  /\ stage' = "correlation"
  /\ UNCHANGED << loadVars, data, min_year, max_year, norm, halted, wide_all, correlated >>

\* line 224: the column the pivot reads has a value in row i
YcolPresent(d, vn, nrm, i) == IF nrm THEN ~vn[i].nan ELSE d[i].present

\* line 225: df.pivot_table(index="date", columns=["country", "indicator_name"],
\* values=ycol) for one indicator.  The values of a (date, column) group are
\* averaged; dropna=True, the default, drops the groups whose average is NaN
\* before the table is laid out, so only dates and columns of a group with a
\* value remain
PivotTable(d, vn, nrm, ind) ==
  LET kept == { << d[i].date, d[i].key >> :
                  i \in { j \in 1..Len(d) : d[j].key[2] = ind /\ YcolPresent(d, vn, nrm, j) } }
  IN [rows |-> { g[1] : g \in kept }, cols |-> { g[2] : g \in kept }]

\* line 229: pd.concat(wide_parts, axis=1); a cell holds the number of values
\* averaged into it, 0 for the missing-data marker
ConcatWide(d, vn, nrm, inds) ==
  LET parts == { PivotTable(d, vn, nrm, ind) : ind \in Range(inds) }
      rs == UNION { p.rows : p \in parts }
      cs == UNION { p.cols : p \in parts }
  IN [rows |-> rs, cols |-> cs,
      cell |-> [c \in rs \X cs |->
                  Cardinality({ i \in 1..Len(d) :
                                  /\ d[i].date = c[1] /\ d[i].key = c[2]
                                  /\ YcolPresent(d, vn, nrm, i) })]]

\* lines 219-233: the wide pivot and its correlation
Correlation(t) ==
  /\ t \in active /\ stage = "correlation"
  /\ wide_all' = ConcatWide(data[t], value_norm, norm, sel[t].indicators)
  /\ correlated' = TRUE
  /\ stage' = "done"
  /\ UNCHANGED << loadVars, data, min_year, max_year, norm, halted, value_norm, charted >>

NextBody ==
  \E t \in Sessions :
    \/ CheckEmpty(t)
    \/ FilterYears(t)
    \/ Kpis(t)
    \/ Chart(t)
    \/ Correlation(t)

SpecBody == InitBody /\ [][NextBody]_vars

\* C7: the Chart and Correlation sections never run on a dataset without rows,
\* and a run whose dataset has no rows ends halted by st.stop().
C7_EmptyHalts ==
  \A t \in active :
    /\ (charted \/ correlated) => data[t] # <<>>
    /\ (stage \in {"stopped", "crashed", "done"} /\ data[t] = <<>>) => halted

\* C8: after normalization, in every series with fewer than two values or with
\* a deviation of zero, a row with a value has value - mean as its value_norm
\* (a number, not NaN), and a row without a value has none.
C8_NormalizationEdgeCases ==
  \A t \in active :
    (norm /\ stage \in {"correlation", "done"}) =>
      \A i \in 1..Len(data[t]) :
        LET d == data[t]
            vals == { d[j].value : j \in Valued(d, d[i].key) }
            n == Cardinality(Valued(d, d[i].key))
            sm == SumOver(Valued(d, d[i].key), [j \in 1..Len(d) |-> d[j].value])
        IN (n < 2 \/ Cardinality(vals) = 1) =>
             IF d[i].present
             THEN /\ ~value_norm[i].nan /\ value_norm[i].one
                  /\ value_norm[i].num = n * d[i].value - sm /\ value_norm[i].den = n
             ELSE value_norm[i].nan

\* C9: the wide table has one row per year of the filtered dataset, one column
\* per series of it, and the marker in every cell without an observation.
\* Stated for the runs without normalization, where the pivot reads `value`.
C9_PivotComplete ==
  \A t \in active :
    (stage = "done" /\ ~norm) =>
      /\ wide_all.rows = { data[t][i].date : i \in 1..Len(data[t]) }
      /\ wide_all.cols = { data[t][i].key : i \in 1..Len(data[t]) }
      /\ \A c \in DOMAIN wide_all.cell :
           (~\E i \in 1..Len(data[t]) : data[t][i].date = c[1] /\ data[t][i].key = c[2])
             => wide_all.cell[c] = 0

====
